---- MODULE Spec2Model ----
(***************************************************************************)
(* Model of the sponsorship pipeline of the paymaster service              *)
(* (src/src/paymaster.rs, entered through src/src/rpc.rs).                 *)
(*                                                                         *)
(* U256 and u64 values are modelled at scaled widths (U256Bits, U64Bits);  *)
(* every arithmetic operator below is written against U256Max / U64Max,    *)
(* so the overflow behaviour is the one of the code at any width.          *)
(***************************************************************************)
EXTENDS Integers, Sequences, FiniteSets, TLC

\* ---- bounds of the model ------------------------------------------------
U256Bits == 8
U64Bits == 13
MaxTicks == 2

\* ---- configuration fixed by Paymaster::new ------------------------------
valid_duration == 3600
gas_price_buffer == 10

U256Max == 2^U256Bits - 1
U64Max == 2^U64Bits - 1

\* The request tasks the RPC server runs (two are enough for sequential and
\* concurrent pairs).
Reqs == {"r1", "r2"}

\* ---- Result / Option values ---------------------------------------------
Ok(v) == [ok |-> TRUE, val |-> v, err |-> "none"]
Err(kind) == [ok |-> FALSE, val |-> 0, err |-> kind]
Some(v) == [some |-> TRUE, val |-> v]
None == [some |-> FALSE, val |-> 0]

\* ---- U256 checked arithmetic --------------------------------------------
wrapping_add(a, b) == Some((a + b) % (U256Max + 1))

saturating_add(a, b) == IF a + b > U256Max THEN Some(U256Max) ELSE Some(a + b)

checked_add(a, b) == IF a + b > U256Max THEN None ELSE Some(a + b)

wrapping_mul(a, b) == Some((a * b) % (U256Max + 1))

checked_mul(a, b) == IF a * b > U256Max THEN None ELSE Some(a * b)

checked_div(a, b) == IF b = 0 THEN None ELSE Some(a \div b)

\* ---- byte strings ---------------------------------------------------------
\* A byte string is a sequence of numbers 0..255.  A Keccak-256 digest is an
\* opaque block standing for 32 bytes: keccak256 is taken collision-free, so
\* the block carries its preimage behind a marker (256) and the preimage's
\* length, which keeps a concatenation of blocks and bytes uniquely parseable
\* exactly as the fixed 32-byte width does.
AddressBytes(n) == [i \in 1..20 |-> n]

RECURSIVE to_be_bytes(_, _)
to_be_bytes(x, n) ==
    IF n = 0 THEN <<>> ELSE to_be_bytes(x \div 256, n - 1) \o <<x % 256>>

RECURSIVE ByteLen(_)
ByteLen(x) == IF x = 0 THEN 0 ELSE 1 + ByteLen(x \div 256)

\* rlp::encode of an unsigned integer: minimal big-endian bytes as an RLP string
rlp_without_length_prefix(x) == to_be_bytes(x, ByteLen(x))

rlp_encode(x) ==
    IF x = 0 THEN <<128>>
    ELSE IF x < 128 THEN <<x>>
    ELSE <<128 + ByteLen(x)>> \o to_be_bytes(x, ByteLen(x))

keccak256(data) == <<256, Len(data)>> \o data

\* ---- UserOperation (types.rs) -------------------------------------------
NoOp ==
    [sender |-> <<>>, nonce |-> 0, init_code |-> <<>>, call_data |-> <<>>,
     call_gas_limit |-> 0, verification_gas_limit |-> 0,
     pre_verification_gas |-> 0, max_fee_per_gas |-> 0,
     max_priority_fee_per_gas |-> 0, paymaster_and_data |-> <<>>,
     signature |-> <<>>]

UserOperation(call, verif, pre, fee, prio) ==
    [NoOp EXCEPT !.sender = AddressBytes(17), !.nonce = 1, !.call_data = <<1>>,
                 !.call_gas_limit = call, !.verification_gas_limit = verif,
                 !.pre_verification_gas = pre, !.max_fee_per_gas = fee,
                 !.max_priority_fee_per_gas = prio]

\* ---- validate_user_operation --------------------------------------------
validate_fee_only(user_op) ==
    IF user_op.max_fee_per_gas = 0
    THEN Err("InvalidUserOperation")
    ELSE Ok(0)

validate_user_operation(user_op) ==
    IF user_op.max_fee_per_gas = 0 \/ user_op.max_priority_fee_per_gas = 0
    THEN Err("InvalidUserOperation")
    ELSE Ok(0)

\* ---- check_paymaster_balance: the outcome once get_balance has replied ---
check_balance_exclusive(reply, max_cost) ==
    IF ~reply.ok THEN Err("EthereumProviderError")
    ELSE IF reply.val < max_cost THEN Err("InsufficientFunds")
    ELSE Ok(0)

check_balance_swallowed(reply, max_cost) ==
    IF ~reply.ok THEN Err("EthereumProviderError") ELSE Ok(0)

check_balance_reversed(reply, max_cost) ==
    IF ~reply.ok THEN Err("EthereumProviderError")
    ELSE IF reply.val >= max_cost THEN Err("InsufficientFunds")
    ELSE Ok(0)

check_balance_error_as_zero(reply, max_cost) ==
    IF reply.ok /\ reply.val > max_cost THEN Ok(0) ELSE Err("InsufficientFunds")

check_paymaster_balance(reply, max_cost) ==
    IF ~reply.ok THEN Err("EthereumProviderError")
    ELSE IF reply.val <= max_cost THEN Err("InsufficientFunds")
    ELSE Ok(0)

\* ---- the time source and the validity window ----------------------------
\* SystemTime::now().duration_since(UNIX_EPOCH): an error before the epoch,
\* otherwise the whole seconds as a u64.
system_time_wrong_kind(clk) ==
    IF clk < 0 THEN Err("InvalidUserOperation") ELSE Ok(clk)

system_time_secs(clk) ==
    IF clk < 0 THEN Err("InvalidParameters") ELSE Ok(clk)

\* u64 `+`: a build with overflow checks panics on overflow, a build
\* without them wraps.
u64_add(a, b, checks) ==
    IF a + b > U64Max
    THEN [panic |-> checks, val |-> (a + b) % (U64Max + 1)]
    ELSE [panic |-> FALSE, val |-> a + b]

validity_window_swapped(now, checks) ==
    LET sum == u64_add(now, valid_duration, checks)
    IN  [panic |-> sum.panic, valid_until |-> now, valid_after |-> sum.val]

validity_window(now, checks) ==
    LET sum == u64_add(now, valid_duration, checks)
    IN  [panic |-> sum.panic, valid_until |-> sum.val, valid_after |-> now]

\* ---- calculate_max_cost -------------------------------------------------
calculate_max_cost(user_op) ==
    LET s1 == checked_add(user_op.call_gas_limit, user_op.verification_gas_limit)
        total_gas == IF s1.some
                     THEN checked_add(s1.val, user_op.pre_verification_gas)
                     ELSE None
        product == checked_mul(user_op.max_fee_per_gas, 100 + gas_price_buffer)
        buffered_gas_price == IF product.some
                              THEN checked_div(product.val, 100)
                              ELSE None
        max_cost == checked_mul(total_gas.val, buffered_gas_price.val)
    IN  IF ~total_gas.some THEN Err("InvalidUserOperation")
        ELSE IF ~buffered_gas_price.some THEN Err("InvalidUserOperation")
        ELSE IF ~max_cost.some THEN Err("InvalidUserOperation")
        ELSE Ok(max_cost.val)

\* ---- hash_user_operation ------------------------------------------------
\* the bytes packed for the first hash
pack_without_pre_verification_gas(user_op) ==
    user_op.sender
    \o rlp_encode(user_op.nonce)
    \o keccak256(user_op.init_code)
    \o keccak256(user_op.call_data)
    \o rlp_encode(user_op.call_gas_limit)
    \o rlp_encode(user_op.verification_gas_limit)
    \o rlp_encode(user_op.max_fee_per_gas)
    \o rlp_encode(user_op.max_priority_fee_per_gas)

pack_with_signature(user_op) ==
    user_op.sender
    \o rlp_encode(user_op.nonce)
    \o keccak256(user_op.init_code)
    \o keccak256(user_op.call_data)
    \o rlp_encode(user_op.call_gas_limit)
    \o rlp_encode(user_op.verification_gas_limit)
    \o rlp_encode(user_op.pre_verification_gas)
    \o rlp_encode(user_op.max_fee_per_gas)
    \o rlp_encode(user_op.max_priority_fee_per_gas)
    \o keccak256(user_op.signature)

pack_user_operation(user_op) ==
    user_op.sender
    \o rlp_encode(user_op.nonce)
    \o keccak256(user_op.init_code)
    \o keccak256(user_op.call_data)
    \o rlp_encode(user_op.call_gas_limit)
    \o rlp_encode(user_op.verification_gas_limit)
    \o rlp_encode(user_op.pre_verification_gas)
    \o rlp_encode(user_op.max_fee_per_gas)
    \o rlp_encode(user_op.max_priority_fee_per_gas)

hash_without_chain_id(user_op, chain, paymaster) ==
    LET data == pack_user_operation(user_op)
        hash == keccak256(data)
        chain_hash_data == hash \o paymaster
    IN  keccak256(chain_hash_data)

hash_user_operation(user_op, chain, paymaster) ==
    LET data == pack_user_operation(user_op)
        hash == keccak256(data)
        chain_hash_data == hash \o rlp_encode(chain) \o paymaster
    IN  keccak256(chain_hash_data)

\* ---- sign_paymaster_data: the message that is hashed and signed ----------
paymaster_message(paymaster, until, after, user_op_hash) ==
    paymaster \o to_be_bytes(until, 8) \o to_be_bytes(after, 8) \o user_op_hash

\* wallet.sign_message: the signature is a function of the key and the
\* digest; it is kept symbolic (marker 257 followed by the signed digest).
wallet_sign_message(message_hash) == <<257>> \o message_hash

\* ---- encode_paymaster_data ----------------------------------------------
encode_unpadded(paymaster, until, after, sig) ==
    paymaster \o to_be_bytes(until, 8) \o to_be_bytes(after, 8) \o sig

encode_swapped(paymaster, until, after, sig) ==
    LET valid_until_bytes == [i \in 1..24 |-> 0] \o to_be_bytes(until, 8)
        valid_after_bytes == [i \in 1..24 |-> 0] \o to_be_bytes(after, 8)
    IN  paymaster \o valid_after_bytes \o valid_until_bytes \o sig

encode_paymaster_data(paymaster, until, after, sig) ==
    LET valid_until_bytes == [i \in 1..24 |-> 0] \o to_be_bytes(until, 8)
        valid_after_bytes == [i \in 1..24 |-> 0] \o to_be_bytes(after, 8)
    IN  paymaster \o valid_until_bytes \o valid_after_bytes \o sig

\* --------------------------------------------------------------------------
\* State
\* --------------------------------------------------------------------------
VARIABLES
    overflow_checks,    \* build profile: does u64 `+` panic on overflow
    chain_id,           \* Paymaster.chain_id
    paymaster_address,  \* Paymaster.paymaster_address
    clock,              \* the system clock, seconds relative to UNIX_EPOCH
    ticks,              \* number of clock advances so far (bounded)
    task,               \* per request: position and locals of sign_user_operation
    hist,               \* per request: observation of what the task has done
    est_op,             \* input of a stand-alone calculate_max_cost call
    est_out,            \* its result
    fn_in,              \* input of a stand-alone call of the codec or the hasher
    fn_out              \* its result

vars == <<overflow_checks, chain_id, paymaster_address, clock, ticks, task,
          hist, est_op, est_out, fn_in, fn_out>>

IdleTask ==
    [pc |-> "Idle", user_op |-> NoOp, max_cost |-> 0, balance |-> 0,
     valid_until |-> 0, valid_after |-> 0, user_op_hash |-> <<>>,
     signature |-> <<>>, paymaster_and_data |-> <<>>, err |-> "none"]

IdleHist ==
    [trace |-> <<>>, balance_calls |-> 0, sign_calls |-> 0,
     received_at |-> 0, finished_before |-> {},
     env |-> <<>>, signed_message |-> <<>>]

NotRun == [ok |-> FALSE, val |-> 0, err |-> "not run"]

Terminal(p) == p \in {"Done", "Failed", "Panicked"}

\* ---- input domains -------------------------------------------------------
PipeOps ==
    { UserOperation(call, verif, 1, fee, prio) :
        call \in {1, U256Max}, verif \in {0, 1},
        fee \in {0, 1, U256Max}, prio \in {0, 1} }

BalanceReplies == { Err("provider") } \cup { Ok(b) : b \in {0, 2, 3, U256Max} }

ClockStarts == {-1, 0, U64Max - valid_duration - 1}

GasVals == {0, 1, 9, 10, 11, 100, U256Max - 1, U256Max}
FeeVals == {0, 1, 2, 3, U256Max \div 110, U256Max \div 110 + 1, U256Max - 1, U256Max}

EstOps ==
    { UserOperation(call, verif, pre, fee, 1) :
        call \in GasVals, verif \in GasVals, pre \in GasVals, fee \in FeeVals }

\* ---- Init ----------------------------------------------------------------
InitCommon ==
    /\ overflow_checks \in BOOLEAN
    /\ chain_id = 1
    /\ paymaster_address = AddressBytes(170)
    /\ ticks = 0
    /\ task = [r \in Reqs |-> IdleTask]
    /\ hist = [r \in Reqs |-> IdleHist]
    /\ est_out = NotRun

Init ==
    /\ InitCommon
    /\ clock \in ClockStarts
    /\ est_op = NoOp
    /\ fn_in = <<>>
    /\ fn_out = <<>>

\* ---- helpers of the actions ----------------------------------------------
Step(r, t, h) ==
    /\ task' = [task EXCEPT ![r] = t]
    /\ hist' = [hist EXCEPT ![r] = h]
    /\ UNCHANGED <<overflow_checks, chain_id, paymaster_address, clock, ticks,
                   est_op, est_out, fn_in, fn_out>>

Advance(t, stage) == [t EXCEPT !.pc = stage]
Fail(t, kind) == [t EXCEPT !.pc = "Failed", !.err = kind]
Enter(h, stage) == [h EXCEPT !.trace = Append(@, stage)]

\* what the task got back from a collaborator (node, clock, wallet)
Heard(h, kind, ok, val) ==
    [h EXCEPT !.env = Append(@, [kind |-> kind, ok |-> ok, val |-> val])]

\* ---- actions: one request r running sign_user_operation ------------------
\* rpc.rs sponsor: a request arrives and its task starts
ReceiveOp(r, ops) ==
    /\ task[r].pc = "Idle"
    /\ \E op \in ops :
         Step(r, [IdleTask EXCEPT !.pc = "Received", !.user_op = op],
                 [IdleHist EXCEPT !.trace = <<"Received">>,
                                  !.received_at = clock,
                                  !.finished_before =
                                      {s \in Reqs : Terminal(task[s].pc)}])

Receive(r) == ReceiveOp(r, PipeOps)

\* 1. self.validate_user_operation(user_op).await?
Validate(r) ==
    /\ task[r].pc = "Received"
    /\ LET res == validate_user_operation(task[r].user_op)
       IN  IF res.ok
           THEN Step(r, Advance(task[r], "Validated"), Enter(hist[r], "Validated"))
           ELSE Step(r, Fail(task[r], res.err), Enter(hist[r], "Failed"))

\* 2. let max_cost = self.calculate_max_cost(user_op)?
EstimateCost(r) ==
    /\ task[r].pc = "Validated"
    /\ LET res == calculate_max_cost(task[r].user_op)
       IN  IF res.ok
           THEN Step(r, [Advance(task[r], "CostEstimated") EXCEPT !.max_cost = res.val],
                        Enter(hist[r], "CostEstimated"))
           ELSE Step(r, Fail(task[r], res.err), Enter(hist[r], "Failed"))

\* 3a. self.client.get_balance(...) is issued and the task suspends
IssueBalanceQuery(r) ==
    /\ task[r].pc = "CostEstimated"
    /\ Step(r, Advance(task[r], "AwaitBalance"),
               [hist[r] EXCEPT !.balance_calls = @ + 1])

\* 3b. the node replies (a balance or an error) and the task resumes
BalanceReply(r) ==
    /\ task[r].pc = "AwaitBalance"
    /\ \E reply \in BalanceReplies :
         LET res == check_paymaster_balance(reply, task[r].max_cost)
             t == [task[r] EXCEPT !.balance = reply.val]
             h == Heard(hist[r], "balance", reply.ok, reply.val)
         IN  IF res.ok
             THEN Step(r, Advance(t, "FundsChecked"), Enter(h, "FundsChecked"))
             ELSE Step(r, Fail(t, res.err), Enter(h, "Failed"))

\* 4. the clock is read and the validity window computed
SelectWindow(r) ==
    /\ task[r].pc = "FundsChecked"
    /\ LET now == system_time_secs(clock)
           w == validity_window(now.val, overflow_checks)
           h == Heard(hist[r], "clock", now.ok, now.val)
       IN  IF ~now.ok
           THEN Step(r, Fail(task[r], now.err), Enter(h, "Failed"))
           ELSE IF w.panic
           THEN Step(r, Advance(task[r], "Panicked"), Enter(h, "Panicked"))
           ELSE Step(r, [Advance(task[r], "WindowSelected") EXCEPT
                            !.valid_until = w.valid_until,
                            !.valid_after = w.valid_after],
                        Enter(h, "WindowSelected"))

\* 6a. sign_paymaster_data: let user_op_hash = self.hash_user_operation(user_op)
HashOperation(r) ==
    /\ task[r].pc = "WindowSelected"
    /\ Step(r, [Advance(task[r], "Hashed") EXCEPT
                   !.user_op_hash = hash_user_operation(task[r].user_op,
                                                        chain_id, paymaster_address)],
               Enter(hist[r], "Hashed"))

\* 6b. sign_paymaster_data: the message is hashed and the wallet signs it
Sign(r) ==
    /\ task[r].pc = "Hashed"
    /\ \E signed \in BOOLEAN :
         LET message == paymaster_message(paymaster_address, task[r].valid_until,
                                          task[r].valid_after, task[r].user_op_hash)
             message_hash == keccak256(message)
             h == [Heard(hist[r], "sign", signed, 0) EXCEPT
                      !.sign_calls = @ + 1, !.signed_message = message]
         IN  IF signed
             THEN Step(r, [Advance(task[r], "Signed") EXCEPT
                              !.signature = wallet_sign_message(message_hash)],
                          Enter(h, "Signed"))
             ELSE Step(r, Fail(task[r], "SignatureVerificationFailed"),
                          Enter(h, "Failed"))

\* 7. self.encode_paymaster_data(valid_until, valid_after, signature)?
Encode(r) ==
    /\ task[r].pc = "Signed"
    /\ Step(r, [Advance(task[r], "Encoded") EXCEPT
                   !.paymaster_and_data =
                       encode_paymaster_data(paymaster_address, task[r].valid_until,
                                             task[r].valid_after, task[r].signature)],
               Enter(hist[r], "Encoded"))

\* Ok(PaymasterResponse { paymaster_and_data })
Respond(r) ==
    /\ task[r].pc = "Encoded"
    /\ Step(r, Advance(task[r], "Done"), Enter(hist[r], "Done"))

\* the system clock advances (monotonic clock source)
Tick ==
    /\ ticks < MaxTicks
    /\ clock < U64Max
    /\ clock' = clock + 1
    /\ ticks' = ticks + 1
    /\ UNCHANGED <<overflow_checks, chain_id, paymaster_address, task, hist,
                   est_op, est_out, fn_in, fn_out>>

Next ==
    \/ \E r \in Reqs : Receive(r)
    \/ \E r \in Reqs : Validate(r)
    \/ \E r \in Reqs : EstimateCost(r)
    \/ \E r \in Reqs : IssueBalanceQuery(r)
    \/ \E r \in Reqs : BalanceReply(r)
    \/ \E r \in Reqs : SelectWindow(r)
    \/ \E r \in Reqs : HashOperation(r)
    \/ \E r \in Reqs : Sign(r)
    \/ \E r \in Reqs : Encode(r)
    \/ \E r \in Reqs : Respond(r)
    \/ Tick

Spec == Init /\ [][Next]_vars

\* ---- stand-alone calls of calculate_max_cost -----------------------------
InitEst ==
    /\ InitCommon
    /\ clock = 0
    /\ est_op \in EstOps
    /\ fn_in = <<>>
    /\ fn_out = <<>>

ApplyEstimate ==
    /\ est_out = NotRun
    /\ est_out' = calculate_max_cost(est_op)
    /\ UNCHANGED <<overflow_checks, chain_id, paymaster_address, clock, ticks,
                   task, hist, est_op, fn_in, fn_out>>

NextEst == ApplyEstimate

SpecEst == InitEst /\ [][NextEst]_vars

\* --------------------------------------------------------------------------
\* Properties
\* --------------------------------------------------------------------------
InTrace(r, stage) == \E i \in DOMAIN hist[r].trace : hist[r].trace[i] = stage

ZeroFee(op) == op.max_fee_per_gas = 0 \/ op.max_priority_fee_per_gas = 0

TotalGas(op) ==
    op.call_gas_limit + op.verification_gas_limit + op.pre_verification_gas

\* the buffered price and the cost in unbounded integer arithmetic
BufferedPrice(op) == (op.max_fee_per_gas * 110) \div 100
ExactCost(op) == TotalGas(op) * BufferedPrice(op)
WholeProductCost(op) == (TotalGas(op) * op.max_fee_per_gas * 110) \div 100

Overflows(op) ==
    \/ TotalGas(op) > U256Max
    \/ op.max_fee_per_gas * 110 > U256Max
    \/ ExactCost(op) > U256Max

\* C1: a request whose operation has maxFeePerGas = 0 or
\* maxPriorityFeePerGas = 0 never gets past validation: it ends Failed with
\* InvalidUserOperation and no get_balance call was ever issued for it.
C1_ZeroFeeRejectedBeforeNetwork ==
    \A r \in Reqs :
        (task[r].pc # "Idle" /\ ZeroFee(task[r].user_op)) =>
            /\ hist[r].balance_calls = 0
            /\ task[r].pc \in {"Received", "Failed"}
            /\ (task[r].pc = "Failed" => task[r].err = "InvalidUserOperation")

C1_Witness ==
    \E r \in Reqs :
        /\ task[r].pc = "Failed"
        /\ task[r].err = "InvalidUserOperation"
        /\ task[r].user_op.max_fee_per_gas # 0
        /\ task[r].user_op.max_priority_fee_per_gas = 0
        /\ hist[r].balance_calls = 0

\* C2: once get_balance has replied with a balance, balance <= cost
\* (equality included) means the request is Failed with InsufficientFunds,
\* and balance > cost means the request entered FundsChecked.
BalanceWasRead(r) ==
    /\ hist[r].balance_calls > 0
    /\ task[r].pc # "AwaitBalance"
    /\ task[r].err # "EthereumProviderError"

C2_FundsGuard ==
    \A r \in Reqs :
        BalanceWasRead(r) =>
            /\ (task[r].balance <= task[r].max_cost) =>
                   (task[r].pc = "Failed" /\ task[r].err = "InsufficientFunds"
                    /\ ~InTrace(r, "FundsChecked"))
            /\ (task[r].balance > task[r].max_cost) =>
                   (InTrace(r, "FundsChecked") /\ task[r].err # "InsufficientFunds")

C2_Witness ==
    \E r, s \in Reqs :
        /\ task[r].pc = "Failed" /\ task[r].err = "InsufficientFunds"
        /\ task[r].balance = task[r].max_cost
        /\ task[s].pc = "FundsChecked"
        /\ task[s].balance = task[s].max_cost + 1

\* C3 (as stated): a successful estimate returns
\* (callGasLimit + verificationGasLimit + preVerificationGas) * maxFeePerGas
\* * 110 / 100, truncated once, after the whole product.
C3_WholeProductTruncation ==
    est_out.ok => est_out.val = WholeProductCost(est_op)

\* C3 (amended): a successful estimate returns
\* totalGas * floor(maxFeePerGas * 110 / 100): the truncation is applied to
\* the buffered price, before it is multiplied by the gas sum.
C3_PriceTruncatedFirst ==
    est_out.ok => est_out.val = ExactCost(est_op)

C3_Witness ==
    /\ est_out.ok
    /\ est_out.val = ExactCost(est_op)
    /\ est_out.val < WholeProductCost(est_op)

\* C4 (as stated): whenever the gas sum or the whole product
\* sum * maxFeePerGas * 110 / 100 (truncated once) exceeds 2^w - 1, the
\* estimate fails with InvalidUserOperation.
C4_FailsWhenWholeProductOverflows ==
    (est_out # NotRun /\ (TotalGas(est_op) > U256Max
                          \/ WholeProductCost(est_op) > U256Max))
        => est_out = Err("InvalidUserOperation")

\* C4 (amended): whenever the gas sum, maxFeePerGas * 110, or
\* sum * floor(maxFeePerGas * 110 / 100) exceeds 2^w - 1, the estimate fails
\* with InvalidUserOperation; a returned cost is never a wrapped value.
C4_FailsWhenAnyStepOverflows ==
    est_out # NotRun =>
        /\ Overflows(est_op) => est_out = Err("InvalidUserOperation")
        /\ est_out.ok => (est_out.val <= U256Max /\ est_out.val = ExactCost(est_op))

C4_Witness ==
    /\ est_out = Err("InvalidUserOperation")
    /\ TotalGas(est_op) <= U256Max
    /\ est_op.max_fee_per_gas * 110 <= U256Max
    /\ ExactCost(est_op) > U256Max

Chain ==
    <<"Received", "Validated", "CostEstimated", "FundsChecked",
      "WindowSelected", "Hashed", "Signed", "Encoded", "Done">>

ErrorKinds ==
    {"InvalidUserOperation", "InsufficientFunds", "SignatureVerificationFailed",
     "TransactionReverted", "EthereumProviderError", "InvalidParameters",
     "UnsupportedOperation"}

IsPrefix(s, t) == Len(s) <= Len(t) /\ \A i \in 1..Len(s) : s[i] = t[i]

\* C5: the stages a request has entered are, in order, an initial part of
\* Received, Validated, CostEstimated, FundsChecked, WindowSelected, Hashed,
\* Signed, Encoded, Done (each at most once), optionally cut short by one
\* final Failed(kind); nothing else ever ends a request.
C5_StagesInOrder ==
    \A r \in Reqs :
        LET tr == hist[r].trace
            n == Len(tr)
        IN  \/ (IsPrefix(tr, Chain) /\ task[r].err = "none")
            \/ /\ n >= 2
               /\ tr[n] = "Failed"
               /\ task[r].pc = "Failed"
               /\ task[r].err \in ErrorKinds
               /\ IsPrefix(SubSeq(tr, 1, n - 1), Chain)
               /\ n - 1 < Len(Chain)

\* C6: a request that ended with InsufficientFunds made no sign call, and a
\* request that made a sign call passed the Funds Guard first, with a
\* balance above its cost.
C6_NoSignWithoutFunds ==
    \A r \in Reqs :
        /\ (task[r].pc = "Failed" /\ task[r].err = "InsufficientFunds")
               => hist[r].sign_calls = 0
        /\ hist[r].sign_calls > 0
               => (InTrace(r, "FundsChecked") /\ task[r].balance > task[r].max_cost)

C6_Witness ==
    \E r, s \in Reqs :
        /\ task[r].pc = "Failed" /\ task[r].err = "InsufficientFunds"
        /\ task[r].balance < task[r].max_cost
        /\ hist[r].balance_calls = 1 /\ hist[r].sign_calls = 0
        /\ hist[s].sign_calls = 1

\* C7: a request whose estimate overflows (gas sum, buffered price or cost
\* beyond 2^w - 1) fails at the estimate with InvalidUserOperation and no
\* get_balance call is ever issued for it.
C7_OverflowNeverQueriesBalance ==
    \A r \in Reqs :
        /\ (task[r].pc # "Idle" /\ ~ZeroFee(task[r].user_op)
            /\ Overflows(task[r].user_op))
               => /\ hist[r].balance_calls = 0
                  /\ task[r].pc \in {"Received", "Validated", "Failed"}
        /\ hist[r].trace = <<"Received", "Validated", "Failed">>
               => /\ hist[r].balance_calls = 0
                  /\ task[r].err = "InvalidUserOperation"
                  /\ Overflows(task[r].user_op)

C7_Witness ==
    \E r \in Reqs :
        /\ hist[r].trace = <<"Received", "Validated", "Failed">>
        /\ task[r].err = "InvalidUserOperation"
        /\ task[r].user_op.call_gas_limit = U256Max
        /\ task[r].user_op.verification_gas_limit > 0
        /\ task[r].user_op.pre_verification_gas > 0
        /\ ~ZeroFee(task[r].user_op)
        /\ hist[r].balance_calls = 0

\* C8: every request that reached WindowSelected has
\* validUntil - validAfter = 3600 and validUntil > validAfter, whatever u64
\* value the clock returned (the addition never wraps).
C8_WindowNeverWraps ==
    \A r \in Reqs :
        InTrace(r, "WindowSelected") =>
            /\ task[r].valid_until - task[r].valid_after = 3600
            /\ task[r].valid_until > task[r].valid_after

C10_ValidAfterMonotonic ==
    \A r, s \in Reqs :
        (s \in hist[r].finished_before
         /\ InTrace(r, "WindowSelected") /\ InTrace(s, "WindowSelected"))
            => task[r].valid_after >= task[s].valid_after

C10_Witness ==
    \E r, s \in Reqs :
        /\ s \in hist[r].finished_before
        /\ InTrace(r, "WindowSelected") /\ InTrace(s, "WindowSelected")
        /\ task[r].valid_after > task[s].valid_after

\* --------------------------------------------------------------------------
\* Stand-alone calls of encode_paymaster_data
\* --------------------------------------------------------------------------
U64Vals == {0, 1, 255, 256, valid_duration, U64Max}

SignatureVals == { <<>>, <<27>>, [i \in 1..65 |-> i] }

CodecInputs ==
    [valid_until : U64Vals, valid_after : U64Vals, signature : SignatureVals]

InitCodec ==
    /\ InitCommon
    /\ clock = 0
    /\ est_op = NoOp
    /\ fn_in \in CodecInputs
    /\ fn_out = <<>>

ApplyEncode ==
    /\ fn_out = <<>>
    /\ fn_out' = encode_paymaster_data(paymaster_address, fn_in.valid_until,
                                       fn_in.valid_after, fn_in.signature)
    /\ UNCHANGED <<overflow_checks, chain_id, paymaster_address, clock, ticks,
                   task, hist, est_op, est_out, fn_in>>

NextCodec == ApplyEncode

SpecCodec == InitCodec /\ [][NextCodec]_vars

\* Reading an Authorization back by its fixed layout (20 | 32 | 32 | rest),
\* the way the on-chain verifier does.
RECURSIVE from_be_bytes(_)
from_be_bytes(bytes) ==
    IF bytes = <<>> THEN 0
    ELSE from_be_bytes(SubSeq(bytes, 1, Len(bytes) - 1)) * 256 + bytes[Len(bytes)]

decode_authorization(bytes) ==
    [paymaster   |-> SubSeq(bytes, 1, 20),
     valid_until |-> from_be_bytes(SubSeq(bytes, 21, 52)),
     valid_after |-> from_be_bytes(SubSeq(bytes, 53, 84)),
     signature   |-> SubSeq(bytes, 85, Len(bytes))]

\* C11: the encoded authorization is 84 + |signature| bytes long and reading
\* it back by the fixed layout recovers exactly the sponsor address,
\* validUntil, validAfter and the signature that were encoded.
C11_CodecRoundTrip ==
    fn_out # <<>> =>
        /\ Len(fn_out) = 84 + Len(fn_in.signature)
        /\ decode_authorization(fn_out) =
               [paymaster   |-> paymaster_address,
                valid_until |-> fn_in.valid_until,
                valid_after |-> fn_in.valid_after,
                signature   |-> fn_in.signature]

C11_Witness ==
    /\ fn_out # <<>>
    /\ Len(fn_in.signature) = 65
    /\ Len(fn_out) = 149
    /\ fn_in.valid_until = U64Max
    /\ fn_in.valid_after = 256
    /\ decode_authorization(fn_out).valid_until = U64Max

\* --------------------------------------------------------------------------
\* Stand-alone calls of hash_user_operation on two operations
\* --------------------------------------------------------------------------
HashOp(s, n, ic, cd, g1, g2, g3, f1, f2, pd, sig) ==
    [sender |-> s, nonce |-> n, init_code |-> ic, call_data |-> cd,
     call_gas_limit |-> g1, verification_gas_limit |-> g2,
     pre_verification_gas |-> g3, max_fee_per_gas |-> f1,
     max_priority_fee_per_gas |-> f2, paymaster_and_data |-> pd,
     signature |-> sig]

IntVals == {0, 1, 128}
BytesVals == { <<>>, <<1>> }

HashOpsA ==
    { HashOp(AddressBytes(17), n, <<>>, <<1>>, g1, g2, 1, 1, 1, <<>>, <<>>) :
        n \in {0, 128}, g1 \in IntVals, g2 \in {0, 1} }

HashOpsB ==
    { HashOp(AddressBytes(s), n, ic, cd, g[1], g[2], g[3], g[4], g[5], pd, sig) :
        s \in {17, 18}, n \in IntVals, ic \in BytesVals, cd \in BytesVals,
        g \in [1..5 -> IntVals], pd \in BytesVals, sig \in BytesVals }

InitHash ==
    /\ overflow_checks = FALSE
    /\ chain_id = 1
    /\ paymaster_address = AddressBytes(170)
    /\ clock = 0
    /\ ticks = 0
    /\ task = [r \in Reqs |-> IdleTask]
    /\ hist = [r \in Reqs |-> IdleHist]
    /\ est_op = NoOp
    /\ est_out = NotRun
    /\ fn_in \in [a : HashOpsA, b : HashOpsB]
    /\ fn_out = <<>>

ApplyHash ==
    /\ fn_out = <<>>
    /\ fn_out' = [pack_a |-> pack_user_operation(fn_in.a),
                  pack_b |-> pack_user_operation(fn_in.b),
                  hash_a |-> hash_user_operation(fn_in.a, chain_id, paymaster_address),
                  hash_b |-> hash_user_operation(fn_in.b, chain_id, paymaster_address)]
    /\ UNCHANGED <<overflow_checks, chain_id, paymaster_address, clock, ticks,
                   task, hist, est_op, est_out, fn_in>>

NextHash == ApplyHash

SpecHash == InitHash /\ [][NextHash]_vars

\* the fields of an operation that the first hash covers
HashedTuple(op) ==
    <<op.sender, op.nonce, op.init_code, op.call_data, op.call_gas_limit,
      op.verification_gas_limit, op.pre_verification_gas, op.max_fee_per_gas,
      op.max_priority_fee_per_gas>>

\* C12 (as stated): identical operations have the same hash and operations
\* that differ in any field of the UserOperation have different hashes.
C12_SensitiveToEveryField ==
    fn_out # <<>> => ((fn_out.hash_a = fn_out.hash_b) <=> (fn_in.a = fn_in.b))

\* C12 (amended): two operations have the same hash exactly when they agree
\* on sender, nonce, initCode, callData, the three gas limits and the two
\* fees; paymasterAndData and signature are not hashed.
C12_SensitiveToHashedFields ==
    fn_out # <<>> =>
        ((fn_out.hash_a = fn_out.hash_b)
            <=> (HashedTuple(fn_in.a) = HashedTuple(fn_in.b)))

C12_Witness ==
    /\ fn_out # <<>>
    /\ fn_in.b = [fn_in.a EXCEPT !.pre_verification_gas = 128]
    /\ fn_in.a.pre_verification_gas = 1
    /\ fn_out.hash_a # fn_out.hash_b

\* C19: two operations whose packed bytes (the preimage of the first hash)
\* are equal agree on every hashed field, although the integers are encoded
\* with variable length and concatenated without separators.
C19_PackIsInjective ==
    fn_out # <<>> =>
        ((fn_out.pack_a = fn_out.pack_b)
            => (HashedTuple(fn_in.a) = HashedTuple(fn_in.b)))

C19_Witness ==
    /\ fn_out # <<>>
    /\ fn_in.a.call_gas_limit = 128 /\ fn_in.a.verification_gas_limit = 1
    /\ fn_in.b.call_gas_limit = 1 /\ fn_in.b.verification_gas_limit = 128
    /\ Len(fn_out.pack_a) = Len(fn_out.pack_b)
    /\ fn_out.pack_a # fn_out.pack_b

\* --------------------------------------------------------------------------
\* Stand-alone calls of hash_user_operation under two sponsor identities
\* --------------------------------------------------------------------------
ChainIds == {0, 1, 128, U64Max}

SponsorAddresses ==
    { AddressBytes(170), AddressBytes(171),
      [i \in 1..20 |-> IF i = 1 THEN 1 ELSE 170] }

SponsorIdentities == [chain_id : ChainIds, paymaster_address : SponsorAddresses]

InitBind ==
    /\ overflow_checks = FALSE
    /\ chain_id = 1
    /\ paymaster_address = AddressBytes(170)
    /\ clock = 0
    /\ ticks = 0
    /\ task = [r \in Reqs |-> IdleTask]
    /\ hist = [r \in Reqs |-> IdleHist]
    /\ est_op = NoOp
    /\ est_out = NotRun
    /\ fn_in \in [op : HashOpsA, a : SponsorIdentities, b : SponsorIdentities]
    /\ fn_out = <<>>

ApplyHashAs ==
    /\ fn_out = <<>>
    /\ fn_out' = [hash_a |-> hash_user_operation(fn_in.op, fn_in.a.chain_id,
                                                 fn_in.a.paymaster_address),
                  hash_b |-> hash_user_operation(fn_in.op, fn_in.b.chain_id,
                                                 fn_in.b.paymaster_address)]
    /\ UNCHANGED <<overflow_checks, chain_id, paymaster_address, clock, ticks,
                   task, hist, est_op, est_out, fn_in>>

NextBind == ApplyHashAs

SpecBind == InitBind /\ [][NextBind]_vars

HeardOf(r, kind) ==
    { i \in DOMAIN hist[r].env : hist[r].env[i].kind = kind }

BalanceReadOk(r) ==
    \E i \in HeardOf(r, "balance") : hist[r].env[i].ok

Concurrent(r, s) ==
    /\ r # s
    /\ task[r].pc # "Idle" /\ task[s].pc # "Idle"
    /\ r \notin hist[s].finished_before
    /\ s \notin hist[r].finished_before

\* C13: the Funds Guard reserves nothing: whenever two requests read the same
\* balance and it exceeds the cost of each, both pass the guard, whatever
\* the sum of their costs; so two concurrent requests can both reach Done on
\* a balance that is below cost1 + cost2.
C13_GuardIsNotAReservation ==
    \A r, s \in Reqs :
        (r # s /\ BalanceReadOk(r) /\ BalanceReadOk(s)
         /\ task[r].balance = task[s].balance
         /\ task[r].balance > task[r].max_cost
         /\ task[s].balance > task[s].max_cost)
            => (InTrace(r, "FundsChecked") /\ InTrace(s, "FundsChecked"))

C13_Witness ==
    \E r, s \in Reqs :
        /\ Concurrent(r, s)
        /\ task[r].pc = "Done" /\ task[s].pc = "Done"
        /\ BalanceReadOk(r) /\ BalanceReadOk(s)
        /\ task[r].balance = task[s].balance
        /\ task[r].max_cost + task[s].max_cost > task[r].balance

\* C16: a request issues at most one get_balance query; when the query fails
\* the request is Failed with EthereumProviderError right after CostEstimated
\* and the clock was not read, nothing was hashed and nothing was signed.
C16_BalanceQueryOnceNoRetry ==
    \A r \in Reqs :
        /\ hist[r].balance_calls <= 1
        /\ Cardinality(HeardOf(r, "balance")) <= hist[r].balance_calls
        /\ (\E i \in HeardOf(r, "balance") : ~hist[r].env[i].ok) =>
               /\ task[r].pc = "Failed"
               /\ task[r].err = "EthereumProviderError"
               /\ hist[r].trace = <<"Received", "Validated", "CostEstimated", "Failed">>
               /\ Len(hist[r].env) = 1
               /\ hist[r].balance_calls = 1
               /\ hist[r].sign_calls = 0
               /\ task[r].user_op_hash = <<>>

C16_Witness ==
    \E r \in Reqs :
        /\ task[r].pc = "Failed"
        /\ task[r].err = "EthereumProviderError"
        /\ hist[r].balance_calls = 1
        /\ hist[r].env = <<[kind |-> "balance", ok |-> FALSE, val |-> 0]>>

\* C17: the error kind of a failed request is the one of the stage that
\* failed: validation and estimate give InvalidUserOperation, a failed
\* balance query EthereumProviderError, the balance comparison
\* InsufficientFunds, the time source InvalidParameters, signing
\* SignatureVerificationFailed; TransactionReverted and UnsupportedOperation
\* never occur.
ErrorOfStage(r) ==
    LET tr == hist[r].trace
        last == tr[Len(tr) - 1]
        heard == hist[r].env[Len(hist[r].env)]
    IN  CASE last = "Received" -> task[r].err = "InvalidUserOperation"
          [] last = "Validated" -> task[r].err = "InvalidUserOperation"
          [] last = "CostEstimated" ->
                /\ heard.kind = "balance"
                /\ (~heard.ok => task[r].err = "EthereumProviderError")
                /\ (heard.ok => task[r].err = "InsufficientFunds")
          [] last = "FundsChecked" ->
                heard.kind = "clock" /\ ~heard.ok /\ task[r].err = "InvalidParameters"
          [] last = "Hashed" ->
                heard.kind = "sign" /\ ~heard.ok
                /\ task[r].err = "SignatureVerificationFailed"
          [] OTHER -> FALSE

C17_ErrorKindByStage ==
    \A r \in Reqs :
        /\ task[r].err \notin {"TransactionReverted", "UnsupportedOperation"}
        /\ (task[r].pc = "Failed" <=> task[r].err # "none")
        /\ task[r].pc = "Failed" => ErrorOfStage(r)

C17_Witness ==
    \E r, s \in Reqs :
        /\ task[r].pc = "Failed" /\ task[r].err = "InvalidParameters"
        /\ task[s].pc = "Failed" /\ task[s].err = "SignatureVerificationFailed"

\* C18: on a successful request the sponsor address, validUntil and
\* validAfter inside the signed message (20 bytes, 8 bytes, 8 bytes) are the
\* ones read back from the 20/32/32-byte fields of the returned authorization.
C18_SignedWindowIsReturnedWindow ==
    \A r \in Reqs :
        task[r].pc \in {"Encoded", "Done"} =>
            LET m == hist[r].signed_message
                a == decode_authorization(task[r].paymaster_and_data)
            IN  /\ Len(m) >= 36
                /\ SubSeq(m, 1, 20) = a.paymaster
                /\ from_be_bytes(SubSeq(m, 21, 28)) = a.valid_until
                /\ from_be_bytes(SubSeq(m, 29, 36)) = a.valid_after
                /\ a.valid_until = task[r].valid_until
                /\ a.valid_after = task[r].valid_after

C18_Witness ==
    \E r \in Reqs :
        /\ task[r].pc = "Done"
        /\ task[r].valid_after > 0
        /\ decode_authorization(task[r].paymaster_and_data).valid_until
               = task[r].valid_after + valid_duration
        /\ from_be_bytes(SubSeq(hist[r].signed_message, 29, 36)) = task[r].valid_after

\* --------------------------------------------------------------------------
\* The pipeline on operations that vary in paymaster_and_data and signature
\* --------------------------------------------------------------------------
VariantOps ==
    { [UserOperation(call, 1, 1, 1, prio) EXCEPT
           !.paymaster_and_data = pd, !.signature = sig] :
        call \in {1, U256Max}, prio \in {0, 1},
        pd \in { <<>>, <<9>> }, sig \in { <<>>, <<7>> } }

InitVariants ==
    /\ InitCommon
    /\ clock = 0
    /\ est_op = NoOp
    /\ fn_in = <<>>
    /\ fn_out = <<>>

ReceiveVariant(r) == ReceiveOp(r, VariantOps)

NextVariants ==
    \/ \E r \in Reqs : ReceiveVariant(r)
    \/ \E r \in Reqs : Validate(r)
    \/ \E r \in Reqs : EstimateCost(r)
    \/ \E r \in Reqs : IssueBalanceQuery(r)
    \/ \E r \in Reqs : BalanceReply(r)
    \/ \E r \in Reqs : SelectWindow(r)
    \/ \E r \in Reqs : HashOperation(r)
    \/ \E r \in Reqs : Sign(r)
    \/ \E r \in Reqs : Encode(r)
    \/ \E r \in Reqs : Respond(r)
    \/ Tick

SpecVariants == InitVariants /\ [][NextVariants]_vars

\* C15: two finished requests whose operations agree on every field except
\* paymaster_and_data and signature, and that got the same answers from the
\* node, the clock and the wallet, ended in the same state with the same
\* locals, the returned authorization bytes included.
C15_IgnoredFieldsDoNotMatter ==
    \A r, s \in Reqs :
        (Terminal(task[r].pc) /\ Terminal(task[s].pc)
         /\ HashedTuple(task[r].user_op) = HashedTuple(task[s].user_op)
         /\ hist[r].env = hist[s].env)
            => [task[r] EXCEPT !.user_op = NoOp] = [task[s] EXCEPT !.user_op = NoOp]

C15_Witness ==
    \E r, s \in Reqs :
        /\ task[r].pc = "Done" /\ task[s].pc = "Done"
        /\ HashedTuple(task[r].user_op) = HashedTuple(task[s].user_op)
        /\ task[r].user_op.signature # task[s].user_op.signature
        /\ task[r].user_op.paymaster_and_data # task[s].user_op.paymaster_and_data
        /\ hist[r].env = hist[s].env
        /\ Len(task[r].paymaster_and_data) > 84
        /\ task[r].paymaster_and_data = task[s].paymaster_and_data
====
